---- MODULE Spec2Model ----
(***************************************************************************)
(* A model of github-grid's commit-schedule engine: the pattern presets,   *)
(* the day-by-day walk of ConfigurablePattern::generate, the daily volume  *)
(* computation and the target calibrator.                                  *)
(*                                                                         *)
(* Numbers.  Dates are chrono's num_days_from_ce ordinals.  Probabilities  *)
(* (f64 in the source) are held in thousandths, multipliers in hundredths; *)
(* every value of a random stream is an explicit draw taken from a small   *)
(* grid of the interval the source draws from.                             *)
(***************************************************************************)
EXTENDS Integers, Sequences, FiniteSets, TLC

VARIABLES
    pc,            \* position: "main", "loop", "done", "error", "panic", "call", "ret", ..
    cli,           \* the command-line arguments read by main
    err,           \* the error returned to the caller, "" when none
    config,        \* the PatternConfig held by the ConfigurablePattern
    start,         \* generate's start
    end,           \* generate's end
    current,       \* generate's cursor
    in_vacation,   \* generate's in_vacation
    vacation_end,  \* generate's vacation_end
    commits,       \* generate's Vec<CommitInfo>, in the order of creation
    generated,     \* the sorted vector generate returns to its caller
    vacations,     \* history: <<day, vacation_end>> of every vacation triggered
    suppressed,    \* history: the days skipped as vacation days
    visited,       \* history: the dates the loop of generate has processed, in order
    call,          \* arguments of a function evaluated on its own
    ret,           \* its result
    prev,          \* the call and result before the latest one
    exec           \* execute_commits: its locals and the repository's commits

vars == <<pc, cli, err, config, start, end, current, in_vacation, vacation_end,
          commits, generated, vacations, suppressed, visited, call, ret, prev, exec>>

walk == <<start, end, current, in_vacation, vacation_end, commits, generated,
          vacations, suppressed, visited>>

calls == <<call, ret, prev, exec>>

(***************************************************************************)
(* Bounds of the model.                                                    *)
(***************************************************************************)
MaxDays == 3

MaxCommits == 2

Min(a, b) == IF a <= b THEN a ELSE b

Max(a, b) == IF a >= b THEN a ELSE b

\* f64 -> u32 `as` cast of a product held in hundredths: truncate toward zero,
\* saturate at 0 below.
Trunc100(x) == IF x <= 0 THEN 0 ELSE x \div 100

(***************************************************************************)
(* IntensityLevel and its tables (patterns.rs).                            *)
(***************************************************************************)
IntensityLevel == {"Casual", "Active", "Maintainer", "Hyperactive", "Extreme"}

get_weekday_range(level) ==
    CASE level = "Casual" -> <<0, 5>>
      [] level = "Active" -> <<0, 15>>
      [] level = "Maintainer" -> <<2, 25>>
      [] level = "Hyperactive" -> <<5, 45>>
      [] level = "Extreme" -> <<10, 80>>

\* weekends drawn from the weekday range
get_weekend_range_weekday(level) == get_weekday_range(level)

get_weekend_range(level) ==
    CASE level = "Casual" -> <<0, 3>>
      [] level = "Active" -> <<0, 5>>
      [] level = "Maintainer" -> <<0, 10>>
      [] level = "Hyperactive" -> <<0, 20>>
      [] level = "Extreme" -> <<2, 35>>

\* thousandths
get_work_probability(level) ==
    CASE level = "Casual" -> 150
      [] level = "Active" -> 650
      [] level = "Maintainer" -> 750
      [] level = "Hyperactive" -> 850
      [] level = "Extreme" -> 920

\* thousandths; the weekend match inside should_work_today
weekend_work_probability(level) ==
    CASE level = "Casual" -> 50
      [] level = "Active" -> 150
      [] level = "Maintainer" -> 250
      [] level = "Hyperactive" -> 350
      [] level = "Extreme" -> 500

\* the match inside get_base_commits
spike_cap(level) ==
    CASE level = "Casual" -> 15
      [] level = "Active" -> 40
      [] level = "Maintainer" -> 60
      [] level = "Hyperactive" -> 100
      [] level = "Extreme" -> 150

(***************************************************************************)
(* Calendar: chrono's weekday of a day ordinal (day 1 = 0001-01-01, a      *)
(* Monday).  0 = Mon .. 6 = Sun.                                           *)
(***************************************************************************)
weekday(date) == (date - 1) % 7

is_weekend(date) == weekday(date) \in {5, 6}

\* hundredths; variation is the draw of random_range(-0.05..=0.05)
get_weekly_multiplier(wd, variation) ==
    LET base == CASE wd = 0 -> 70
                  [] wd \in {1, 2, 3} -> 110
                  [] wd = 4 -> 80
                  [] wd \in {5, 6} -> 60
    IN  Max(base + variation, 10)

(***************************************************************************)
(* PatternConfig and the presets.                                          *)
(***************************************************************************)
PatternConfig(i, rhythm, vf, vd, sp, sm) ==
    [intensity |-> i, use_weekly_rhythm |-> rhythm, vacation_frequency |-> vf,
     vacation_duration |-> vd, spike_probability |-> sp, spike_multiplier |-> sm]

casual == PatternConfig("Casual", FALSE, 20, <<0, 0>>, 80, 250)

active == PatternConfig("Active", TRUE, 30, <<2, 7>>, 120, 200)

maintainer == PatternConfig("Maintainer", TRUE, 40, <<3, 10>>, 150, 180)

hyperactive == PatternConfig("Hyperactive", TRUE, 25, <<2, 5>>, 200, 220)

\* the extreme preset with the vacation bounds written in the other order
extreme_reversed == PatternConfig("Extreme", TRUE, 20, <<4, 1>>, 250, 250)

extreme == PatternConfig("Extreme", TRUE, 20, <<1, 4>>, 250, 250)

\* a steady pattern that keeps the active preset unchanged
steady_plain == PatternConfig("Active", TRUE, 30, <<2, 7>>, 120, 200)

steady == PatternConfig("Active", FALSE, 5, <<1, 2>>, 20, 120)

sporadic == PatternConfig("Active", FALSE, 20, <<1, 5>>, 150, 300)

contractor == PatternConfig("Active", TRUE, 8, <<2, 4>>, 80, 140)

NoConfig == [intensity |-> "none"]

(***************************************************************************)
(* The random draws.                                                       *)
(***************************************************************************)
\* rng.random::<f64>(), in [0, 1), thousandths
UnitDraws == {0, 299, 300, 999}

\* random_range(-0.1..=0.1), thousandths
WorkVariations == {-100, 0, 100}

\* random_range(-0.05..=0.05), hundredths
RhythmVariations == {-5, 0, 5}

\* random_range(0.5..=1.5), hundredths
SpikeVariations == {50, 100, 150}

\* random_range(6..=23)
HourDraws == {6, 23}

\* random_range(0..60)
MinuteDraws == {0, 59}

(***************************************************************************)
(* ConfigurablePattern::should_work_today.  variation and draw are the two *)
(* values it takes from the day's stream.                                  *)
(***************************************************************************)
should_work_today(cfg, date, variation, draw) ==
    LET base_probability == get_work_probability(cfg.intensity)
        probability == IF is_weekend(date)
                       THEN weekend_work_probability(cfg.intensity)
                       ELSE base_probability
        clamped == Max(0, Min(1000, probability + variation))
    IN  draw < clamped

(***************************************************************************)
(* ConfigurablePattern::get_base_commits, in its four stages.  dr holds    *)
(* the values taken from the stream: base, mvar, sdraw, svar, zdraw.       *)
(***************************************************************************)
base_range(cfg, date) ==
    IF is_weekend(date) THEN get_weekend_range(cfg.intensity)
                        ELSE get_weekday_range(cfg.intensity)

after_rhythm(cfg, date, dr) ==
    IF cfg.use_weekly_rhythm
    THEN Trunc100(dr.base * get_weekly_multiplier(weekday(date), dr.mvar))
    ELSE dr.base

spiked(cfg, dr) == dr.sdraw < cfg.spike_probability

\* after_spike without the cap on spike days
after_spike_uncapped(cfg, date, dr) ==
    LET c == after_rhythm(cfg, date, dr)
    IN  IF spiked(cfg, dr)
        THEN Trunc100(c * (cfg.spike_multiplier + dr.svar))
        ELSE c

after_spike(cfg, date, dr) ==
    LET c == after_rhythm(cfg, date, dr)
    IN  IF spiked(cfg, dr)
        THEN Min(Trunc100(c * (cfg.spike_multiplier + dr.svar)),
                 spike_cap(cfg.intensity))
        ELSE c

\* a zero count kept without consulting the draw
zero_floor_kept(c, zdraw) == IF c = 0 THEN 0 ELSE Max(c, 1)

zero_floor(c, zdraw) ==
    IF c = 0 /\ zdraw < 300 THEN 0 ELSE Max(c, 1)

get_base_commits(cfg, date, dr) ==
    zero_floor(after_spike(cfg, date, dr), dr.zdraw)

(***************************************************************************)
(* CommitInfo and the final sort_by_key(|c| c.date), a stable sort.        *)
(***************************************************************************)
create_commit_at_time(date, hour, minute) ==
    [date |-> date, hour |-> hour, minute |-> minute]

\* the order of two local date-times
Before(a, b) ==
    \/ a.date < b.date
    \/ a.date = b.date /\ a.hour < b.hour
    \/ a.date = b.date /\ a.hour = b.hour /\ a.minute < b.minute

RECURSIVE InsertStable(_, _)
InsertStable(s, e) ==
    IF s = <<>> THEN <<e>>
    ELSE IF Before(e, s[Len(s)]) THEN Append(InsertStable(SubSeq(s, 1, Len(s) - 1), e), s[Len(s)])
    ELSE Append(s, e)

\* generate returning the events in the order of creation
sort_skipped(s) == s

RECURSIVE sort_by_date(_)
sort_by_date(s) ==
    IF s = <<>> THEN <<>>
    ELSE InsertStable(sort_by_date(SubSeq(s, 1, Len(s) - 1)), s[Len(s)])

(***************************************************************************)
(* create_pattern (main.rs) and the wrapper patterns' configurations.      *)
(***************************************************************************)
\* Option<T>: None is the empty sequence, Some(x) the sequence of x
None == <<>>

Some(x) == <<x>>

NoError == [kind |-> "none", msg |-> ""]

\* GitHubGridError::Config(format!("Unknown pattern: {}", name))
UnknownPattern(name) == [kind |-> "Config", msg |-> "Unknown pattern: ", name |-> name]

\* create_pattern falling back to the default pattern
create_pattern_defaulting(name) ==
    [ok |-> TRUE, config |-> IF name = "casual" THEN casual ELSE active, err |-> NoError]

create_pattern(name) ==
    CASE name = "realistic" -> [ok |-> TRUE, config |-> active, err |-> NoError]
      [] name = "steady" -> [ok |-> TRUE, config |-> steady, err |-> NoError]
      [] name = "sporadic" -> [ok |-> TRUE, config |-> sporadic, err |-> NoError]
      [] name = "contractor" -> [ok |-> TRUE, config |-> contractor, err |-> NoError]
      [] name = "casual" -> [ok |-> TRUE, config |-> casual, err |-> NoError]
      [] name = "active" -> [ok |-> TRUE, config |-> active, err |-> NoError]
      [] name = "maintainer" -> [ok |-> TRUE, config |-> maintainer, err |-> NoError]
      [] name = "hyperactive" -> [ok |-> TRUE, config |-> hyperactive, err |-> NoError]
      [] name = "extreme" -> [ok |-> TRUE, config |-> extreme, err |-> NoError]
      [] OTHER -> [ok |-> FALSE, config |-> NoConfig, err |-> UnknownPattern(name)]

(***************************************************************************)
(* calibrate_pattern_for_target (main.rs).  target_avg = (needed / days) * *)
(* 0.9 is compared with 5, 15, 30, 50; with days > 0 that is the exact     *)
(* comparison of 9 * needed with 10 * days * threshold (the f64 result     *)
(* lands on the same side of each threshold for the inputs used here).     *)
(* days = 0 gives +inf or NaN, for which every `<` is false.               *)
(***************************************************************************)
\* the thresholds compared with <= in place of <
below_inclusive(needed, days, threshold) ==
    IF days = 0 THEN FALSE
    ELSE IF days > 0 THEN 9 * needed <= 10 * days * threshold
    ELSE TRUE

below(needed, days, threshold) ==
    IF days = 0 THEN FALSE
    ELSE IF days > 0 THEN 9 * needed < 10 * days * threshold
    ELSE TRUE

\* the first two branches of the if chain with their levels exchanged
calibrate_intensity_swapped(needed, days) ==
    IF below(needed, days, 5) THEN "Active"
    ELSE IF below(needed, days, 15) THEN "Casual"
    ELSE IF below(needed, days, 30) THEN "Maintainer"
    ELSE IF below(needed, days, 50) THEN "Hyperactive"
    ELSE "Extreme"

calibrate_intensity(needed, days) ==
    IF below(needed, days, 5) THEN "Casual"
    ELSE IF below(needed, days, 15) THEN "Active"
    ELSE IF below(needed, days, 30) THEN "Maintainer"
    ELSE IF below(needed, days, 50) THEN "Hyperactive"
    ELSE "Extreme"

calibrate_pattern_for_target(needed, days) ==
    LET intensity == calibrate_intensity(needed, days)
        vacation_freq == CASE intensity = "Casual" -> 30
                           [] intensity = "Active" -> 20
                           [] intensity = "Maintainer" -> 15
                           [] intensity = "Hyperactive" -> 10
                           [] intensity = "Extreme" -> 8
        spike_prob == CASE intensity = "Casual" -> 180
                        [] intensity = "Active" -> 220
                        [] intensity = "Maintainer" -> 280
                        [] intensity = "Hyperactive" -> 320
                        [] intensity = "Extreme" -> 380
    IN  PatternConfig(intensity, TRUE, vacation_freq, <<1, 4>>, spike_prob, 280)

(***************************************************************************)
(* One iteration of generate's while loop, by parts.                       *)
(***************************************************************************)
\* a cursor that stays on the same day
succ_opt_same_day(date) == date

\* current.succ_opt().unwrap(): the day after
succ_opt(date) == date + 1

\* the loop running one day past end
loop_continues_past(cur, e) == cur <= e + 1

\* while current <= end
loop_continues(cur, e) == cur <= e

\* a trigger evaluated on vacation days too
vacation_triggered_again(cfg, inv, vac) == vac < cfg.vacation_frequency

\* "Check for vacation start": vac is the random::<f64>() draw, vlen the
\* random_range(min..=max) draw.
vacation_triggered(cfg, inv, vac) == ~inv /\ vac < cfg.vacation_frequency

vacation_start(cfg, cur, inv, vend, vac, vlen) ==
    IF vacation_triggered(cfg, inv, vac)
    THEN [in_vacation |-> TRUE, vacation_end |-> cur + vlen]
    ELSE [in_vacation |-> inv, vacation_end |-> vend]

\* the test that ends the vacation with its comparison reversed
vacation_over_reversed(cur, vend) == cur <= vend

\* "Skip vacation days": the test that ends the vacation
vacation_over(cur, vend) == cur >= vend

\* the values random_range(min..=max) can return; empty when min > max, where
\* rand panics
VacationLengths(cfg) == cfg.vacation_duration[1]..cfg.vacation_duration[2]

\* the draws get_base_commits takes on a day
BaseDraws(cfg, date) ==
    [base : base_range(cfg, date)[1]..base_range(cfg, date)[2],
     mvar : RhythmVariations, sdraw : UnitDraws, svar : SpikeVariations,
     zdraw : UnitDraws]

DayCounts(cfg, date) == {get_base_commits(cfg, date, dr) : dr \in BaseDraws(cfg, date)}

WorkOutcomes(cfg, date) ==
    {should_work_today(cfg, date, v, d) : v \in WorkVariations, d \in UnitDraws}

\* the commits of one day: the for loop over 0..day_commits
day_events(date, times) ==
    [i \in DOMAIN times |-> create_commit_at_time(date, times[i][1], times[i][2])]

(***************************************************************************)
(* main: pattern-based and target-based generation up to the call of       *)
(* generate.                                                                *)
(***************************************************************************)
PatternNames ==
    {"realistic", "steady", "sporadic", "contractor", "casual", "active",
     "maintainer", "hyperactive", "extreme", "", "Casual", "default"}

TargetTotals == {40}

ExistingCommits == {0, 35, 40}

\* 2024-01-05, a Friday
StartDates == {738890}

\* ConfigurablePattern::new
new(cfg) == [config |-> cfg]

EnterGenerate ==
    /\ current' = start
    /\ in_vacation' = FALSE
    /\ vacation_end' = start
    /\ commits' = <<>>
    /\ generated' = <<>>
    /\ vacations' = {}
    /\ suppressed' = {}
    /\ visited' = <<>>
    /\ UNCHANGED <<start, end>>

MainPattern ==
    /\ pc = "main"
    /\ cli.target_total = None
    /\ LET r == create_pattern(cli.pattern)
       IN  IF r.ok
           THEN /\ config' = new(r.config).config
                /\ pc' = "loop"
                /\ err' = err
                /\ EnterGenerate
           ELSE /\ pc' = "error"
                /\ err' = r.err
                /\ UNCHANGED <<config>>
                /\ UNCHANGED walk
    /\ UNCHANGED <<cli>>
    /\ UNCHANGED calls

MainTarget ==
    /\ pc = "main"
    /\ cli.target_total # None
    /\ \E existing_commits \in ExistingCommits :
         LET commits_needed == Max(cli.target_total[1] - existing_commits, 0)
             days_in_range == (end - start) + 1
         IN  IF commits_needed = 0
             THEN /\ pc' = "done"
                  /\ UNCHANGED <<config>>
                  /\ UNCHANGED walk
             ELSE /\ config' = new(calibrate_pattern_for_target(commits_needed, days_in_range)).config
                  /\ pc' = "loop"
                  /\ EnterGenerate
    /\ UNCHANGED <<cli, err>>
    /\ UNCHANGED calls

(***************************************************************************)
(* ConfigurablePattern::generate: one loop iteration per step, then the    *)
(* sort and return.                                                         *)
(***************************************************************************)
GenerateDay ==
    /\ pc = "loop"
    /\ loop_continues(current, end)
    /\ UNCHANGED <<config, cli, err, start, end, generated>>
    /\ UNCHANGED calls
    /\ \E vac \in UnitDraws :
         IF vacation_triggered(config, in_vacation, vac) /\ VacationLengths(config) = {}
         THEN /\ pc' = "panic"
              /\ UNCHANGED <<current, in_vacation, vacation_end, commits, vacations,
                             suppressed, visited>>
         ELSE \E vlen \in IF vacation_triggered(config, in_vacation, vac)
                          THEN VacationLengths(config) ELSE {0} :
           LET v == vacation_start(config, current, in_vacation, vacation_end, vac, vlen)
           IN  /\ vacation_end' = v.vacation_end
               /\ vacations' = IF vacation_triggered(config, in_vacation, vac)
                               THEN vacations \cup {<<current, v.vacation_end>>}
                               ELSE vacations
               /\ current' = succ_opt(current)
               /\ visited' = Append(visited, current)
               /\ pc' = pc
               /\ IF v.in_vacation
                  THEN /\ in_vacation' = ~vacation_over(current, v.vacation_end)
                       /\ suppressed' = suppressed \cup {current}
                       /\ commits' = commits
                  ELSE /\ in_vacation' = FALSE
                       /\ suppressed' = suppressed
                       /\ \E w \in WorkOutcomes(config, current) :
                            IF ~w
                            THEN commits' = commits
                            ELSE \E day_commits \in DayCounts(config, current) :
                                   /\ Len(commits) + day_commits <= MaxCommits
                                   /\ \E times \in [1..day_commits -> HourDraws \X MinuteDraws] :
                                        commits' = commits \o day_events(current, times)

GenerateReturn ==
    /\ pc = "loop"
    /\ ~loop_continues(current, end)
    /\ generated' = sort_by_date(commits)
    /\ pc' = "done"
    /\ UNCHANGED <<config, cli, err, start, end, current, in_vacation, vacation_end,
                   commits, vacations, suppressed, visited>>
    /\ UNCHANGED calls

NoWalk ==
    /\ current = start
    /\ in_vacation = FALSE
    /\ vacation_end = start
    /\ commits = <<>>
    /\ generated = <<>>
    /\ vacations = {}
    /\ suppressed = {}
    /\ visited = <<>>

NoCall ==
    /\ call = None
    /\ ret = None
    /\ prev = None
    /\ exec = None

Init ==
    /\ pc = "main"
    /\ cli \in {[pattern |-> n, target_total |-> None] : n \in PatternNames}
               \cup {[pattern |-> "realistic", target_total |-> Some(t)] : t \in TargetTotals}
    /\ err = NoError
    /\ config = NoConfig
    /\ start \in StartDates
    /\ end \in (start - 1)..(start + MaxDays - 1)
    /\ NoWalk
    /\ NoCall

Next == MainPattern \/ MainTarget \/ GenerateDay \/ GenerateReturn

Spec == Init /\ [][Next]_vars

(***************************************************************************)
(* Properties of generate and create_pattern, checked under Spec.           *)
(***************************************************************************)
EventsOf(s) == {s[i] : i \in DOMAIN s}

InWindow(e) ==
    /\ start <= e.date /\ e.date <= end
    /\ e.hour \in 6..23
    /\ e.minute \in 0..59

Sorted(s) == \A i, j \in DOMAIN s : i < j => ~Before(s[j], s[i])

\* C1: every event generate creates or returns has a date d with
\* start <= d <= end, an hour in 6..23 and a minute in 0..59.
C1_EventsInsideRange ==
    \A e \in EventsOf(commits) \cup EventsOf(generated) : InWindow(e)

\* C1 witness: a finished walk over several days that returned events on its
\* first and on its last day.
C1_Witness ==
    /\ pc = "done"
    /\ start < end
    /\ \E e \in EventsOf(generated) : e.date = start
    /\ \E e \in EventsOf(generated) : e.date = end /\ e.hour = 23 /\ e.minute = 59

\* C2: the sequence generate returns is sorted non-decreasingly by timestamp
\* (and holds exactly the events created), whatever the order of creation.
C2_ResultSorted ==
    pc = "done" =>
        /\ Sorted(generated)
        /\ Len(generated) = Len(commits)
        /\ EventsOf(generated) = EventsOf(commits)

\* C2 witness: the events were created out of timestamp order and returned.
C2_Witness ==
    /\ pc = "done"
    /\ ~Sorted(commits)
    /\ Len(generated) >= 2

\* C3: once a vacation is triggered on day d with end date e, every day of
\* d..e the walk has passed was skipped as a vacation day, and no skipped day
\* has an event.
C3_VacationDaysSilent ==
    /\ \A x \in suppressed : \A e \in EventsOf(commits) : e.date # x
    /\ \A v \in vacations :
           \A x \in v[1]..Min(v[2], current - 1) : x \in suppressed

\* C3 witness: a vacation of several days has run to its end and the walk has
\* events on other days.
C3_Witness ==
    /\ \E v \in vacations : v[1] < v[2] /\ v[2] < current /\ v[2] \in suppressed
    /\ commits # <<>>

\* C4 (as claimed): the day equal to vacation_end is a normal work day, never
\* skipped as a vacation day.
C4_EndDateIsWorkDay ==
    \A v \in vacations : v[2] < current => v[2] \notin suppressed

\* the days skipped on account of the vacation triggered on day d: the run of
\* skipped days from d up to the next trigger
SuppressedBy(d) ==
    {x \in d..(current - 1) :
        \A y \in d..x : y \in suppressed /\ (y > d => \A v \in vacations : v[1] # y)}

\* C5 (as claimed): a vacation that ended inside the date range suppressed a
\* number of days within [min, max] of config.vacation_duration.
C5_SuppressedDaysWithinDuration ==
    \A v \in vacations :
        (v[2] <= end /\ v[2] < current /\ ~(in_vacation /\ vacation_end = v[2])) =>
            /\ Cardinality(SuppressedBy(v[1])) >= config.vacation_duration[1]
            /\ Cardinality(SuppressedBy(v[1])) <= config.vacation_duration[2]

KnownPatterns ==
    {"casual", "active", "realistic", "maintainer", "hyperactive", "extreme",
     "steady", "sporadic", "contractor"}

\* C7: for a name outside the nine presets main ends with the Config error
\* "Unknown pattern" and builds no pattern; for each of the nine names it
\* gets a pattern and no error.
C7_UnknownPatternIsError ==
    (pc # "main" /\ cli.target_total = None) =>
        IF cli.pattern \in KnownPatterns
        THEN /\ pc # "error"
             /\ err = NoError
             /\ config \in {casual, active, maintainer, hyperactive, extreme, steady,
                            sporadic, contractor}
        ELSE /\ pc = "error"
             /\ err.kind = "Config"
             /\ err.msg = "Unknown pattern: "
             /\ err.name = cli.pattern
             /\ config = NoConfig
             /\ commits = <<>>

\* C7 witness: an unknown name has been refused.
C7_Witness ==
    /\ pc = "error"
    /\ cli.pattern = "default"
    /\ err = UnknownPattern("default")

(***************************************************************************)
(* ConfigurablePattern::new and generate called with any PatternConfig     *)
(* value (the fields are public), valid or not.                            *)
(***************************************************************************)
\* the PatternConfig invariants: both probabilities in [0, 1], min <= max
ValidConfig(cfg) ==
    /\ cfg.vacation_frequency \in 0..1000
    /\ cfg.spike_probability \in 0..1000
    /\ cfg.vacation_duration[1] <= cfg.vacation_duration[2]
    /\ cfg.spike_multiplier >= 0

AnyConfigs ==
    {PatternConfig("Casual", FALSE, vf, vd, sp, 250) :
        vf \in {-100, 20, 1500}, vd \in {<<1, 2>>, <<2, 1>>}, sp \in {-100, 80, 1500}}

Idle ==
    /\ cli = None
    /\ err = NoError
    /\ config = NoConfig

NewPattern ==
    /\ pc = "new"
    /\ config' = new(call[1]).config
    /\ pc' = "loop"
    /\ EnterGenerate
    /\ UNCHANGED <<cli, err>>
    /\ UNCHANGED calls

InitNew ==
    /\ pc = "new"
    /\ Idle
    /\ call \in {Some(c) : c \in AnyConfigs}
    /\ ret = None
    /\ prev = None
    /\ exec = None
    /\ start \in StartDates
    /\ end \in start..(start + 1)
    /\ NoWalk

NextNew == NewPattern \/ GenerateDay \/ GenerateReturn

SpecNew == InitNew /\ [][NextNew]_vars

\* C6 (as claimed): a PatternConfig that breaks the invariants is refused at
\* construction with a configuration error and never reaches generation.
C6_InvalidConfigRefused ==
    LET cfg == call[1]
        invalid == \/ cfg.vacation_duration[1] > cfg.vacation_duration[2]
                   \/ cfg.vacation_frequency \notin 0..1000
                   \/ cfg.spike_probability \notin 0..1000
    IN  (pc # "new" /\ invalid) => (pc = "error" /\ err.kind = "Config")

(***************************************************************************)
(* calibrate_pattern_for_target evaluated on its own, then again for a     *)
(* larger target over the same number of days.                             *)
(***************************************************************************)
MaxCalTarget == 520

MaxCalDays == 9

CalTargets == 0..MaxCalTarget \cup {4999, 5000, 5001}

CalDays == 1..MaxCalDays \cup {300}

CalSteps == {1, 10, 100}

NoEngine ==
    /\ Idle
    /\ start = 0
    /\ end = 0
    /\ NoWalk

Calibrate ==
    /\ pc = "call"
    /\ call[1].fn = "calibrate"
    /\ ret' = Some(calibrate_pattern_for_target(call[1].target, call[1].days))
    /\ pc' = "ret"
    /\ UNCHANGED <<cli, err, config, call, prev, exec>>
    /\ UNCHANGED walk

Recalibrate ==
    /\ pc = "ret"
    /\ call[1].fn = "calibrate"
    /\ \E step \in CalSteps :
         /\ call[1].target + step \in CalTargets
         /\ prev' = Some([target |-> call[1].target, config |-> ret[1]])
         /\ call' = Some([call[1] EXCEPT !.target = call[1].target + step])
         /\ ret' = Some(calibrate_pattern_for_target(call[1].target + step, call[1].days))
    /\ UNCHANGED <<pc, cli, err, config, exec>>
    /\ UNCHANGED walk

InitCalib ==
    /\ pc = "call"
    /\ NoEngine
    /\ call \in {Some([fn |-> "calibrate", target |-> t, days |-> d]) :
                    t \in CalTargets, d \in CalDays}
    /\ ret = None
    /\ prev = None
    /\ exec = None

NextCalib == Calibrate \/ Recalibrate

SpecCalib == InitCalib /\ [][NextCalib]_vars

\* the level the thresholds 5, 15, 30, 50 give the damped rate 0.9 * t / d
LevelOfRate(t, d) ==
    IF 9 * t < 50 * d THEN "Casual"
    ELSE IF 9 * t < 150 * d THEN "Active"
    ELSE IF 9 * t < 300 * d THEN "Maintainer"
    ELSE IF 9 * t < 500 * d THEN "Hyperactive"
    ELSE "Extreme"

\* C8: for days > 0 the calibrator selects the level of the damped rate
\* r = 0.9 * target / days: r < 5 Casual, 5 <= r < 15 Active, 15 <= r < 30
\* Maintainer, 30 <= r < 50 Hyperactive, r >= 50 Extreme; target 0 gives
\* Casual, and r on a threshold (5000 over 300 days) gives the higher level.
C8_CalibratorBuckets ==
    pc = "ret" =>
        /\ ret[1].intensity = LevelOfRate(call[1].target, call[1].days)
        /\ call[1].target = 0 => ret[1].intensity = "Casual"
        /\ (call[1].target = 5000 /\ call[1].days = 300) => ret[1].intensity = "Maintainer"

\* C8 witness: 5000 commits over 300 days, a damped rate of exactly 15.
C8_Witness ==
    /\ pc = "ret"
    /\ call[1].target = 5000 /\ call[1].days = 300
    /\ ret[1].intensity = "Maintainer"

Rank(level) ==
    CASE level = "Casual" -> 0
      [] level = "Active" -> 1
      [] level = "Maintainer" -> 2
      [] level = "Hyperactive" -> 3
      [] level = "Extreme" -> 4

\* C9: for fixed days, the level selected for a larger target is never lower
\* than the level selected for a smaller one.
C9_CalibratorMonotone ==
    (pc = "ret" /\ prev # None) =>
        /\ prev[1].target <= call[1].target
        /\ Rank(prev[1].config.intensity) <= Rank(ret[1].intensity)

\* C9 witness: the target rises from 49 to 50 over 9 days, where the damped
\* rate reaches exactly 5.0, and the level rises from Casual to Active.
C9_Witness ==
    /\ pc = "ret" /\ prev # None
    /\ call[1].days = 9 /\ call[1].target = 50 /\ prev[1].target = 49
    /\ prev[1].config.intensity = "Casual" /\ ret[1].intensity = "Active"

(***************************************************************************)
(* One day's volume evaluated on its own: should_work_today, then          *)
(* get_base_commits, as generate calls them.                                *)
(***************************************************************************)
DayConfigs ==
    {PatternConfig(l, r, 0, <<1, 4>>, sp, sm) :
        l \in IntensityLevel, r \in BOOLEAN, sp \in {0, 250, 1000}, sm \in {0, 280, 1000}}

\* 2024-01-01 (Monday) .. 2024-01-07 (Sunday)
DayDates == 738886..738892

EvaluateDay ==
    /\ pc = "call"
    /\ call[1].fn = "day"
    /\ \E w \in WorkOutcomes(call[1].config, call[1].date) :
         IF ~w
         THEN ret' = Some([worked |-> FALSE, spiked |-> FALSE, before_floor |-> 0,
                           kept_zero |-> FALSE, count |-> 0])
         ELSE \E dr \in BaseDraws(call[1].config, call[1].date) :
                ret' = Some([worked |-> TRUE,
                             spiked |-> spiked(call[1].config, dr),
                             before_floor |-> after_spike(call[1].config, call[1].date, dr),
                             kept_zero |-> dr.zdraw < 300,
                             count |-> get_base_commits(call[1].config, call[1].date, dr)])
    /\ pc' = "ret"
    /\ UNCHANGED <<cli, err, config, call, prev, exec>>
    /\ UNCHANGED walk

InitDay ==
    /\ pc = "call"
    /\ NoEngine
    /\ call \in {Some([fn |-> "day", config |-> c, date |-> d]) :
                    c \in DayConfigs, d \in DayDates}
    /\ ret = None
    /\ prev = None
    /\ exec = None

NextDay == EvaluateDay

SpecDay == InitDay /\ [][NextDay]_vars

\* C10: for every level and every config the number of events of one day is
\* at least 0 and at most the level's spike cap (15/40/60/100/150).
C10_DayCountWithinCap ==
    pc = "ret" =>
        /\ ret[1].count >= 0
        /\ ret[1].count <=
             (CASE call[1].config.intensity = "Casual" -> 15
                [] call[1].config.intensity = "Active" -> 40
                [] call[1].config.intensity = "Maintainer" -> 60
                [] call[1].config.intensity = "Hyperactive" -> 100
                [] call[1].config.intensity = "Extreme" -> 150)

\* C10 witness: a spike day of a Casual config whose count the cap cut to 15.
C10_Witness ==
    /\ pc = "ret"
    /\ call[1].config.intensity = "Casual"
    /\ ret[1].spiked
    /\ ret[1].count = 15

(***************************************************************************)
(* date_rng.  A u64 is held as its eight base-256 digits, least            *)
(* significant first, so that the 64-bit products and sums of the seed     *)
(* are computed exactly.                                                    *)
(***************************************************************************)
\* the digits of a value 0 <= n < 2^31
u64_from(n) ==
    <<n % 256, (n \div 256) % 256, (n \div 65536) % 256, n \div 16777216, 0, 0, 0, 0>>

\* `n as u64` for an i32 n: the sign is extended
as_u64(n) ==
    IF n >= 0
    THEN u64_from(n)
    ELSE LET m == (n + 2147483647) + 1
         IN  <<m % 256, (m \div 256) % 256, (m \div 65536) % 256, (m \div 16777216) + 128,
               255, 255, 255, 255>>

RECURSIVE MulDigits(_, _, _, _)
MulDigits(x, k, i, carry) ==
    IF i > 8 THEN <<>>
    ELSE LET t == x[i] * k + carry
         IN  <<t % 256>> \o MulDigits(x, k, i + 1, t \div 256)

\* u64::wrapping_mul by a factor below 2^23: the carry out of the top digit is lost
wrapping_mul(x, k) == MulDigits(x, k, 1, 0)

RECURSIVE AddDigits(_, _, _, _)
AddDigits(x, y, i, carry) ==
    IF i > 8 THEN <<carry>>
    ELSE LET t == x[i] + y[i] + carry
         IN  <<t % 256>> \o AddDigits(x, y, i + 1, t \div 256)

\* u64 `+`: the sum modulo 2^64 and whether the exact sum left the u64 range
\* (a panic in a build with overflow checks, a wrapped seed in one without)
overflowing_add(x, y) ==
    LET d == AddDigits(x, y, 1, 0)
    IN  [value |-> SubSeq(d, 1, 8), overflow |-> d[9] = 1]

RECURSIVE LessFrom(_, _, _)
LessFrom(x, y, i) ==
    IF i = 0 THEN FALSE
    ELSE IF x[i] # y[i] THEN x[i] < y[i]
    ELSE LessFrom(x, y, i - 1)

\* x < y on u64
LessU64(x, y) == LessFrom(x, y, 8)

\* a seed whose date term is spaced by 100 only
date_rng_narrow(date, micros) ==
    overflowing_add(wrapping_mul(as_u64(date), 100), u64_from(micros % 1000))

\* a seed that keeps all of the microsecond reading
date_rng_whole_reading(date, micros) ==
    overflowing_add(wrapping_mul(as_u64(date), 1000000), u64_from(micros))

\* date_rng's seed; micros is the subsec_micros() reading of the clock
date_rng(date, micros) ==
    overflowing_add(wrapping_mul(as_u64(date), 1000000), u64_from(micros % 1000))

\* ChaCha8Rng::seed_from_u64(seed), then the k-th value of the stream: some
\* fixed function of the seed and of k, here a checksum of the digits
Stream(seed, k) ==
    (seed[1] + 3 * seed[2] + 7 * seed[3] + 11 * seed[4] + 13 * seed[5]
       + 17 * seed[6] + 19 * seed[7] + 23 * seed[8] + 29 * k) % 1009

RECURSIVE Pick(_, _)
\* the stream value h mapped onto the grid S: its (h mod |S|)-th smallest element
Pick(S, h) ==
    LET lo == CHOOSE x \in S : \A y \in S : x <= y
    IN  IF h % Cardinality(S) = 0 THEN lo ELSE Pick(S \ {lo}, (h % Cardinality(S)) - 1)

\* a stream value mapped onto the interval lo..hi of random_range(lo..=hi)
PickRange(lo, hi, h) == lo + (h % ((hi - lo) + 1))

COMMIT_MESSAGES ==
    <<"[AutoGen] Add new feature implementation",
      "[AutoGen] Fix critical bug in core logic",
      "[AutoGen] Refactor existing codebase",
      "[AutoGen] Add comprehensive tests",
      "[AutoGen] Update documentation",
      "[AutoGen] Optimize performance bottleneck",
      "[AutoGen] Implement user feedback",
      "[AutoGen] Fix merge conflicts",
      "[AutoGen] Add error handling",
      "[AutoGen] Update dependencies",
      "[AutoGen] Clean up code structure",
      "[AutoGen] Add logging and monitoring",
      "[AutoGen] Fix security vulnerability",
      "[AutoGen] Improve user interface",
      "[AutoGen] Add API endpoints",
      "[AutoGen] Fix failing tests",
      "[AutoGen] Add database migrations",
      "[AutoGen] Improve code coverage",
      "[AutoGen] Add configuration options",
      "[AutoGen] Fix production issue">>

\* get_random_message: i is the value of the thread-local generator rng(),
\* which is not seeded by date_rng
get_random_message(i) == COMMIT_MESSAGES[i]

\* the first and the last index random_range(0..COMMIT_MESSAGES.len()) can give
MessageDraws == {1, Len(COMMIT_MESSAGES)}

(***************************************************************************)
(* One iteration of generate's loop with every draw taken from the stream  *)
(* of the day's date_rng: draw k of the day is Stream(rng, k).             *)
(***************************************************************************)
SeededDraws(cfg, date, rng) ==
    [vac       |-> Pick(UnitDraws, Stream(rng, 1)),
     vlen      |-> PickRange(cfg.vacation_duration[1], cfg.vacation_duration[2],
                             Stream(rng, 2)),
     variation |-> Pick(WorkVariations, Stream(rng, 3)),
     gate      |-> Pick(UnitDraws, Stream(rng, 4)),
     base      |-> PickRange(base_range(cfg, date)[1], base_range(cfg, date)[2],
                             Stream(rng, 5)),
     mvar      |-> Pick(RhythmVariations, Stream(rng, 6)),
     sdraw     |-> Pick(UnitDraws, Stream(rng, 7)),
     svar      |-> Pick(SpikeVariations, Stream(rng, 8)),
     zdraw     |-> Pick(UnitDraws, Stream(rng, 9))]

\* what the iteration for `date` decides: the vacation trigger and its length,
\* whether the day is skipped as a vacation day, the work gate, the count
seeded_day(cfg, date, inv, micros) ==
    LET rng == date_rng(date, micros).value
        d == SeededDraws(cfg, date, rng)
        v == vacation_start(cfg, date, inv, date, d.vac, d.vlen)
        worked == ~v.in_vacation /\ should_work_today(cfg, date, d.variation, d.gate)
    IN  [vacation |-> vacation_triggered(cfg, inv, d.vac),
         vacation_end |-> v.vacation_end,
         skipped |-> v.in_vacation,
         worked |-> worked,
         count |-> IF worked THEN get_base_commits(cfg, date, d) ELSE 0]

\* day ordinals: 1 BCE-12-30, 1 BCE-12-31, 0001-01-01, 0001-01-02, 2024-01-05,
\* 2024-01-06, and two days near the ends of chrono's range of dates
SeedDates == {-1, 0, 1, 2, 738890, 738891, -95000000, 95000000}

\* readings of subsec_micros(), which lie in 0..999999
MicrosReadings == {0, 1, 999, 1000, 1999, 999999}

SeedConfigs == {casual, active, extreme, sporadic}

SeededResult(c, label) ==
    [seed |-> date_rng(c.date, c.micros).value,
     overflow |-> date_rng(c.date, c.micros).overflow,
     outcome |-> seeded_day(c.config, c.date, c.in_vacation, c.micros),
     label |-> label]

\* the message of the day's first event, when it has one
Labels(c) ==
    IF seeded_day(c.config, c.date, c.in_vacation, c.micros).count > 0
    THEN {Some(get_random_message(i)) : i \in MessageDraws}
    ELSE {None}

EvaluateSeeded ==
    /\ pc = "call"
    /\ call[1].fn = "seeded"
    /\ \E label \in Labels(call[1]) : ret' = Some(SeededResult(call[1], label))
    /\ pc' = "ret"
    /\ UNCHANGED <<cli, err, config, call, prev, exec>>
    /\ UNCHANGED walk

\* the same config evaluated again: at another time, for any date, in either
\* state of the vacation scheduler
ReevaluateSeeded ==
    /\ pc = "ret"
    /\ call[1].fn = "seeded"
    /\ \E d \in SeedDates, m \in MicrosReadings, inv \in BOOLEAN :
         LET c == [call[1] EXCEPT !.date = d, !.micros = m, !.in_vacation = inv]
         IN  /\ call' = Some(c)
             /\ prev' = Some([call |-> call[1], ret |-> ret[1]])
             /\ \E label \in Labels(c) : ret' = Some(SeededResult(c, label))
    /\ pc' = "again"
    /\ UNCHANGED <<cli, err, config, exec>>
    /\ UNCHANGED walk

InitSeed ==
    /\ pc = "call"
    /\ NoEngine
    /\ call \in {Some([fn |-> "seeded", config |-> c, date |-> d, micros |-> m,
                       in_vacation |-> inv]) :
                    c \in SeedConfigs, d \in SeedDates, m \in MicrosReadings,
                    inv \in BOOLEAN}
    /\ ret = None
    /\ prev = None
    /\ exec = None

NextSeed == EvaluateSeeded \/ ReevaluateSeeded

SpecSeed == InitSeed /\ [][NextSeed]_vars

C12_EngineConfigsValid ==
    (config # NoConfig) =>
        /\ ValidConfig(config)
        /\ (cli.target_total # None) =>
              (config.vacation_duration = <<1, 4>> /\ config.spike_multiplier = 280)
        /\ pc # "panic"

\* C12 witness: a calibrated Casual configuration has been walked to the end
\* and produced events.
C12_Witness ==
    /\ pc = "done"
    /\ cli.target_total # None
    /\ config.intensity = "Casual"
    /\ config.vacation_duration = <<1, 4>>
    /\ Len(generated) > 0

\* the level a preset name spells
LevelNamed(name) ==
    CASE name = "casual" -> "Casual"
      [] name = "active" -> "Active"
      [] name = "maintainer" -> "Maintainer"
      [] name = "hyperactive" -> "Hyperactive"
      [] name = "extreme" -> "Extreme"

\* C13: "realistic" resolves to exactly the configuration of "active"; each of
\* casual, active, maintainer, hyperactive, extreme resolves to the preset of
\* the level of that name; steady, sporadic and contractor resolve to
\* configurations distinct from one another and from active.
C13_PresetNamesResolve ==
    (pc \in {"loop", "done", "panic"} /\ cli.target_total = None) =>
        /\ (cli.pattern = "realistic") => (config = active)
        /\ (cli.pattern \in {"casual", "active", "maintainer", "hyperactive", "extreme"}) =>
              /\ config.intensity = LevelNamed(cli.pattern)
              /\ config \in {casual, active, maintainer, hyperactive, extreme}
        /\ (cli.pattern = "steady") => (config \notin {sporadic, contractor, active})
        /\ (cli.pattern = "sporadic") => (config \notin {steady, contractor, active})
        /\ (cli.pattern = "contractor") => (config \notin {steady, sporadic, active})

\* C13 witness: "realistic" has run to the end with the active preset.
C13_Witness ==
    /\ pc = "done"
    /\ cli.pattern = "realistic" /\ cli.target_total = None
    /\ config = active
    /\ Len(generated) > 0

\* C15: on a loop iteration entered with in_vacation already true no vacation
\* trigger is evaluated: vacation_end keeps its value and no vacation (and so
\* no vacation length) is drawn.
C15_NoTriggerOnVacation ==
    [][(pc = "loop" /\ in_vacation) =>
          (vacation_end' = vacation_end /\ vacations' = vacations)]_vars

\* C15 witness: the day after a trigger day has been processed as a vacation
\* day, with the vacation still running.
C15_Witness ==
    /\ pc = "loop" /\ in_vacation
    /\ \E v \in vacations : v[1] + 1 \in suppressed /\ vacation_end = v[2]

\* C16: for start <= end the loop of generate processes the dates start,
\* start + 1, .. in ascending order, each once, whatever branch a day takes;
\* it can always take its next step, and it has made end - start + 1
\* iterations when generate returns.  The walk begins outside a vacation.
C16_EachDateOnce ==
    (pc \in {"loop", "done"} /\ config # NoConfig /\ start <= end) =>
        /\ visited = [i \in 1..(current - start) |-> start + (i - 1)]
        /\ current <= end + 1
        /\ (pc = "done") => (Len(visited) = (end - start) + 1)
        /\ (pc = "loop" /\ visited = <<>>) => ~in_vacation
        /\ (pc = "loop") => ENABLED (GenerateDay \/ GenerateReturn)

\* C16 witness: a walk over three dates has returned, one of its days skipped
\* as a vacation day and one with events.
C16_Witness ==
    /\ pc = "done"
    /\ end = start + 2
    /\ Len(visited) = 3
    /\ suppressed # {}
    /\ Len(generated) > 0

(***************************************************************************)
(* One day's volume, checked under SpecDay.                                 *)
(***************************************************************************)
\* C14: for a Casual config without weekly rhythm, with spike probability 0
\* and vacation frequency 0, the count of a weekday is in 0..5 and the count
\* of a Saturday or Sunday in 0..3, before and after the zero-floor step.
C14_CasualPlainBounds ==
    (/\ pc = "ret"
     /\ call[1].config.intensity = "Casual"
     /\ ~call[1].config.use_weekly_rhythm
     /\ call[1].config.spike_probability = 0
     /\ call[1].config.vacation_frequency = 0) =>
        LET top == IF call[1].date \in {738891, 738892} THEN 3 ELSE 5
        IN  /\ ret[1].before_floor \in 0..top
            /\ ret[1].count \in 0..top

\* C14 witness: a Saturday of such a config with the largest count, 3.
C14_Witness ==
    /\ pc = "ret"
    /\ call[1].config.intensity = "Casual"
    /\ ~call[1].config.use_weekly_rhythm
    /\ call[1].config.spike_probability = 0
    /\ call[1].date = 738891
    /\ ret[1].worked
    /\ ret[1].count = 3

\* C17: the final count of a day is 0 only if the work gate failed, or the
\* count after the spike stage was 0 and the zero-floor draw (below 0.3) kept
\* it; in every other case it is max(count, 1).
C17_ZeroOnlyByGateOrFloor ==
    (pc = "ret") =>
        /\ (ret[1].count = 0) =>
              (~ret[1].worked \/ (ret[1].before_floor = 0 /\ ret[1].kept_zero))
        /\ (ret[1].worked /\ ~(ret[1].before_floor = 0 /\ ret[1].kept_zero)) =>
              /\ ret[1].count = Max(ret[1].before_floor, 1)
              /\ ret[1].count >= 1

\* C17 witness: a day that passed the gate with a count of 0 after the spike
\* stage, which the zero-floor draw raised to 1.
C17_Witness ==
    /\ pc = "ret"
    /\ ret[1].worked
    /\ ret[1].before_floor = 0
    /\ ~ret[1].kept_zero
    /\ ret[1].count = 1

(***************************************************************************)
(* execute_commits (main.rs).  The k-th commit of the input vector is held *)
(* as the number k.  exec holds the locals of the call and the state of    *)
(* the repository it acts on through GitOperations:                         *)
(*   len          the length of the input vector                            *)
(*   batch_count  the local of that name                                    *)
(*   created      the commits create_commit has added to the local branch   *)
(*   pushed       how many of them the remote has                           *)
(*   create_calls, push_calls, failures, late_calls: history of the calls   *)
(*   of create_commit and push_commits, of those that returned Err, and of  *)
(*   those made after one had returned Err                                  *)
(***************************************************************************)
BATCH_SIZE == 500

MaxBatches == 2

\* lengths of the input vector around the multiples of BATCH_SIZE
ExecLengths ==
    {0, 1, BATCH_SIZE - 1, BATCH_SIZE, BATCH_SIZE + 1, MaxBatches * BATCH_SIZE,
     MaxBatches * BATCH_SIZE + 1}

\* a batch pushed only once it has grown past BATCH_SIZE
batch_full_late(batch_count) == batch_count > BATCH_SIZE

\* if batch_count >= BATCH_SIZE
batch_full(batch_count) == batch_count >= BATCH_SIZE

\* an Err that is dropped
returns_early_never(ok) == FALSE

\* the `?` after create_commit and push_commits: an Err ends execute_commits
returns_early(ok) == ~ok

\* From<git2::Error> for GitHubGridError
GitError == [kind |-> "Git", msg |-> ""]

\* GitOperations::create_commit with result ok: the commit is added to the
\* local branch by repo.commit, the last fallible call, or not at all
create_commit(e, commit, ok) ==
    [e EXCEPT !.created = IF ok THEN Append(e.created, commit) ELSE e.created,
              !.create_calls = e.create_calls + 1,
              !.failures = e.failures + (IF ok THEN 0 ELSE 1),
              !.late_calls = e.late_calls + (IF e.failures > 0 THEN 1 ELSE 0)]

\* GitOperations::push_commits with result ok: a successful push of
\* refs/heads/main brings the remote up to the local branch
push_commits(e, ok) ==
    [e EXCEPT !.pushed = IF ok THEN Len(e.created) ELSE e.pushed,
              !.push_calls = e.push_calls + 1,
              !.failures = e.failures + (IF ok THEN 0 ELSE 1),
              !.late_calls = e.late_calls + (IF e.failures > 0 THEN 1 ELSE 0)]

\* one iteration of `for commit in commits`
ExecuteCommit ==
    /\ pc = "exec"
    /\ exec[1].create_calls < exec[1].len
    /\ \E created_ok \in BOOLEAN, pushed_ok \in BOOLEAN :
         LET commit == exec[1].create_calls + 1
             e1 == create_commit(exec[1], commit, created_ok)
         IN  IF returns_early(created_ok)
             THEN /\ exec' = Some(e1)
                  /\ pc' = "exec_err"
                  /\ err' = GitError
             ELSE LET e2 == [e1 EXCEPT !.batch_count = e1.batch_count + 1]
                  IN  IF batch_full(e2.batch_count)
                      THEN LET e3 == push_commits(e2, pushed_ok)
                           IN  IF returns_early(pushed_ok)
                               THEN /\ exec' = Some(e3)
                                    /\ pc' = "exec_err"
                                    /\ err' = GitError
                               ELSE /\ exec' = Some([e3 EXCEPT !.batch_count = 0])
                                    /\ pc' = pc
                                    /\ err' = err
                      ELSE /\ exec' = Some(e2)
                           /\ pc' = pc
                           /\ err' = err
    /\ UNCHANGED <<cli, config, call, ret, prev>>
    /\ UNCHANGED walk

\* after the loop: the final push and Ok(())
ExecuteFinish ==
    /\ pc = "exec"
    /\ exec[1].create_calls >= exec[1].len
    /\ IF exec[1].batch_count > 0
       THEN \E pushed_ok \in BOOLEAN :
              /\ exec' = Some(push_commits(exec[1], pushed_ok))
              /\ IF returns_early(pushed_ok)
                 THEN pc' = "exec_err" /\ err' = GitError
                 ELSE pc' = "exec_ok" /\ err' = err
       ELSE /\ exec' = exec
            /\ pc' = "exec_ok"
            /\ err' = err
    /\ UNCHANGED <<cli, config, call, ret, prev>>
    /\ UNCHANGED walk

InitExec ==
    /\ pc = "exec"
    /\ NoEngine
    /\ call = None
    /\ ret = None
    /\ prev = None
    /\ exec \in {Some([len |-> n, batch_count |-> 0, created |-> <<>>, pushed |-> 0,
                       create_calls |-> 0, push_calls |-> 0, failures |-> 0,
                       late_calls |-> 0]) : n \in ExecLengths}

NextExec == ExecuteCommit \/ ExecuteFinish

SpecExec == InitExec /\ [][NextExec]_vars

\* C18: after every completed loop iteration fewer than 500 of the created
\* commits are unpushed; when execute_commits returns Ok every commit of the
\* input has been created, in input order, and is covered by a push, and
\* push_commits was called exactly ceil(n / 500) times (0 times for n = 0).
C18_BatchedPushes ==
    /\ (pc = "exec") =>
          /\ Len(exec[1].created) - exec[1].pushed < 500
          /\ Len(exec[1].created) - exec[1].pushed = exec[1].batch_count
    /\ (pc = "exec_ok") =>
          /\ exec[1].created = [k \in 1..exec[1].len |-> k]
          /\ exec[1].pushed = exec[1].len
          /\ exec[1].push_calls = (exec[1].len + 499) \div 500
          /\ exec[1].failures = 0

\* C18 witness: 501 commits have been created and pushed in two pushes.
C18_Witness ==
    /\ pc = "exec_ok"
    /\ exec[1].len = 501
    /\ Len(exec[1].created) = 501
    /\ exec[1].pushed = 501
    /\ exec[1].push_calls = 2

\* C19: execute_commits stops at the first failure of create_commit or
\* push_commits: it returns the error, creates no later commit and attempts
\* no further push, and the commits created since the last successful push
\* stay in the local branch, unpushed.
C19_StopsAtFirstFailure ==
    /\ exec[1].late_calls = 0
    /\ exec[1].failures <= 1
    /\ (exec[1].failures = 1) <=> (pc = "exec_err")
    /\ (pc = "exec_err") =>
          /\ err = GitError
          /\ exec[1].created = [k \in 1..Len(exec[1].created) |-> k]
          /\ Len(exec[1].created) <= exec[1].len
          /\ exec[1].pushed <= Len(exec[1].created)
          /\ exec[1].pushed % 500 = 0
          /\ Len(exec[1].created) - exec[1].pushed <= 500
          /\ (exec[1].pushed < Len(exec[1].created)) \/ (Len(exec[1].created) < exec[1].len)

\* C19 witness: the push of the first full batch failed: 500 commits are in
\* the local branch, the remote has none of them, and the 501st commit of the
\* input was never created.
C19_Witness ==
    /\ pc = "exec_err"
    /\ exec[1].len = 501
    /\ Len(exec[1].created) = 500
    /\ exec[1].pushed = 0
    /\ exec[1].push_calls = 1
    /\ exec[1].create_calls = 500

(***************************************************************************)
(* The seed of date_rng, checked under SpecSeed.                            *)
(***************************************************************************)
\* C20: the sum (ordinal as u64).wrapping_mul(1000000) + (reading mod 1000)
\* never leaves the u64 range, for dates before and after the epoch of the
\* ordinals; and for two dates with ordinals 0 <= d1 < d2 every seed of d1 is
\* below every seed of d2, so the seed ranges of distinct dates are disjoint.
C20_SeedRangesDisjoint ==
    /\ (pc \in {"ret", "again"}) => ~ret[1].overflow
    /\ (pc = "again") =>
          /\ ~prev[1].ret.overflow
          /\ (0 <= prev[1].call.date /\ prev[1].call.date < call[1].date) =>
                LessU64(prev[1].ret.seed, ret[1].seed)
          /\ (0 <= call[1].date /\ call[1].date < prev[1].call.date) =>
                LessU64(ret[1].seed, prev[1].ret.seed)

\* C20 witness: 2024-01-05 seeded with the largest entropy term, 999, then
\* 2024-01-06 with the smallest, 0; the second seed is the larger one.
C20_Witness ==
    /\ pc = "again"
    /\ prev[1].call.date = 738890 /\ prev[1].call.micros = 999999
    /\ call[1].date = 738891 /\ call[1].micros = 1000
    /\ LessU64(prev[1].ret.seed, ret[1].seed)
    /\ ~ret[1].overflow

(***************************************************************************)
(* Two runs of main on one repository: determine_date_range,               *)
(* get_latest_autogen_commit, generate and execute_commits.                 *)
(*                                                                         *)
(* A commit of the branch is [time, message]; the branch is the sequence   *)
(* of its commits, oldest first, so HEAD is the last one.  Times are       *)
(* minutes since the start of the day of ordinal 0 in UTC (every commit    *)
(* time of the program has 0 seconds).  tz is the offset of the local time *)
(* zone, in minutes east of UTC.                                            *)
(***************************************************************************)
\* commit_info.date.timestamp(), for the date-time built by
\* Local.from_local_datetime(&date.and_time(hour:minute:00))
timestamp(c, tz) == ((c.date * 1440) + (c.hour * 60) + c.minute) - tz

\* DateTime::from_timestamp(t, 0).with_timezone(&Local).date_naive()
date_naive(t, tz) == (t + tz) \div 1440

\* str::starts_with
starts_with(message, prefix) ==
    /\ Len(message) >= Len(prefix)
    /\ SubSeq(message, 1, Len(prefix)) = prefix

RECURSIVE revwalk_find(_, _)
\* the loop over revwalk, which goes from HEAD towards the root
revwalk_find(branch, i) ==
    IF i = 0 THEN None
    ELSE IF starts_with(branch[i].message, "[AutoGen]") THEN Some(branch[i].time)
    ELSE revwalk_find(branch, i - 1)

\* GitOperations::get_latest_autogen_commit; push_head fails when the
\* repository has no commit
get_latest_autogen_commit(branch) ==
    IF branch = <<>>
    THEN [ok |-> FALSE, value |-> None]
    ELSE [ok |-> TRUE, value |-> revwalk_find(branch, Len(branch))]

\* a resume that starts on the date of the last generated commit
determine_date_range_same_day(branch, tz, s, e, today) ==
    LET end_date == IF e # None THEN e[1] ELSE today
        latest == get_latest_autogen_commit(branch)
    IN  IF s # None THEN [ok |-> TRUE, start |-> s[1], end |-> end_date]
        ELSE IF ~latest.ok THEN [ok |-> FALSE, start |-> 0, end |-> 0]
        ELSE IF latest.value # None
        THEN [ok |-> TRUE, start |-> date_naive(latest.value[1], tz), end |-> end_date]
        ELSE [ok |-> TRUE, start |-> end_date - 365, end |-> end_date]

\* determine_date_range; s and e are --start and --end, already parsed
determine_date_range(branch, tz, s, e, today) ==
    LET end_date == IF e # None THEN e[1] ELSE today
        latest == get_latest_autogen_commit(branch)
    IN  IF s # None THEN [ok |-> TRUE, start |-> s[1], end |-> end_date]
        ELSE IF ~latest.ok THEN [ok |-> FALSE, start |-> 0, end |-> 0]
        ELSE IF latest.value # None
        THEN [ok |-> TRUE, start |-> date_naive(latest.value[1], tz) + 1, end |-> end_date]
        ELSE [ok |-> TRUE, start |-> end_date - 365, end |-> end_date]

\* the commit create_commit writes for a CommitInfo: its time is the
\* timestamp of the date-time, its message the label drawn for it (label i
\* of the pool, drawn by get_random_message when the CommitInfo was built)
git_commit(c, i, tz) == [time |-> timestamp(c, tz), message |-> get_random_message(i)]

labelled(cs, msgs, tz) == [k \in DOMAIN cs |-> git_commit(cs[k], msgs[k], tz)]

RECURSIVE execute_loop(_, _, _, _)
\* the for loop of execute_commits from the k-th commit on; fail is the number
\* of the call of create_commit that returns Err (none when it is 0)
execute_loop(e, cs, k, fail) ==
    IF k > Len(cs) THEN [e |-> e, ok |-> TRUE]
    ELSE LET e1 == create_commit(e, cs[k], k # fail)
         IN  IF returns_early(k # fail) THEN [e |-> e1, ok |-> FALSE]
             ELSE LET e2 == [e1 EXCEPT !.batch_count = e1.batch_count + 1]
                  IN  IF batch_full(e2.batch_count)
                      THEN execute_loop([push_commits(e2, TRUE) EXCEPT !.batch_count = 0],
                                        cs, k + 1, fail)
                      ELSE execute_loop(e2, cs, k + 1, fail)

\* execute_commits as one call; fail = Len(cs) + 1 makes the final push fail
execute_commits(e, cs, fail) ==
    LET r == execute_loop(e, cs, 1, fail)
        pushed_ok == fail # Len(cs) + 1
    IN  IF ~r.ok \/ r.e.batch_count = 0 THEN r
        ELSE [e |-> push_commits(r.e, pushed_ok), ok |-> ~returns_early(pushed_ok)]

\* offsets of the local time zone: UTC-12 and UTC+14
LocalOffsets == {-720, 840}

\* the branch before the first run: no commit, or an earlier generated
\* commit (2024-01-04 23:59) below a commit of the user's whose message only
\* mentions the prefix
ResumeBranches(tz) ==
    {<<>>,
     <<[time |-> timestamp([date |-> 738889, hour |-> 23, minute |-> 59], tz),
        message |-> COMMIT_MESSAGES[Len(COMMIT_MESSAGES)]],
       [time |-> timestamp([date |-> 738892, hour |-> 9, minute |-> 0], tz),
        message |-> "Revert [AutoGen] Update documentation"]>>}

\* main up to the call of generate
RunMain ==
    /\ pc = "run"
    /\ LET r == determine_date_range(exec[1].head, exec[1].tz, cli.start, cli.end,
                                     exec[1].today)
           p == create_pattern(cli.pattern)
       IN  IF ~r.ok \/ ~p.ok
           THEN /\ pc' = "error"
                /\ err' = IF ~r.ok THEN GitError ELSE p.err
                /\ UNCHANGED <<config>>
                /\ UNCHANGED walk
           ELSE /\ r.end - r.start < MaxDays
                /\ config' = new(p.config).config
                /\ pc' = "loop"
                /\ err' = err
                /\ start' = r.start
                /\ end' = r.end
                /\ current' = r.start
                /\ in_vacation' = FALSE
                /\ vacation_end' = r.start
                /\ commits' = <<>>
                /\ generated' = <<>>
                /\ vacations' = {}
                /\ suppressed' = {}
                /\ visited' = <<>>
    /\ UNCHANGED <<cli>>
    /\ UNCHANGED calls

\* main after generate: the dry-run return or execute_commits
RunExecute ==
    /\ pc = "done"
    /\ IF cli.dry_run
       THEN /\ pc' = "finished"
            /\ exec' = exec
            /\ err' = err
       ELSE \E i \in MessageDraws, fail \in 0..(Len(generated) + 1) :
              LET cs == labelled(generated, [k \in DOMAIN generated |-> i], exec[1].tz)
                  r == execute_commits([exec[1] EXCEPT !.len = Len(cs)], cs, fail)
              IN  /\ exec' = Some(r.e)
                  /\ pc' = IF r.ok THEN "finished" ELSE "exec_err"
                  /\ err' = IF r.ok THEN err ELSE GitError
    /\ UNCHANGED <<cli, config, call, ret, prev>>
    /\ UNCHANGED walk

\* the latest date among the events of a vector
Max_date(cs) == CHOOSE d \in {cs[k].date : k \in DOMAIN cs} :
                    \A k \in DOMAIN cs : cs[k].date <= d

\* the program is started again, later, without --start and --end
NextRun ==
    /\ pc \in {"finished", "exec_err"}
    /\ exec[1].run = 1
    /\ prev' = Some([completed |-> (pc = "finished" /\ ~cli.dry_run),
                     latest |-> IF generated = <<>> THEN None
                                ELSE Some(Max_date(generated))])
    /\ \E t \in end..(end + 1) :
         exec' = Some([exec[1] EXCEPT !.head = exec[1].head \o exec[1].created,
                                      !.created = <<>>, !.len = 0, !.batch_count = 0,
                                      !.pushed = 0, !.create_calls = 0, !.push_calls = 0,
                                      !.failures = 0, !.late_calls = 0,
                                      !.run = 2, !.today = t])
    /\ cli' = [cli EXCEPT !.start = None, !.end = None, !.dry_run = FALSE]
    /\ pc' = "run"
    /\ err' = NoError
    /\ UNCHANGED <<config, call, ret>>
    /\ UNCHANGED walk

InitResume ==
    /\ pc = "run"
    /\ err = NoError
    /\ config = NoConfig
    /\ start = 0
    /\ end = 0
    /\ NoWalk
    /\ call = None
    /\ ret = None
    /\ prev = None
    /\ \E d \in StartDates, tz \in LocalOffsets :
         /\ cli \in [pattern : {"realistic"}, target_total : {None},
                     start : {None, Some(d)}, end : {Some(d)}, dry_run : BOOLEAN]
         /\ exec \in {Some([len |-> 0, batch_count |-> 0, created |-> <<>>, pushed |-> 0,
                             create_calls |-> 0, push_calls |-> 0, failures |-> 0,
                             late_calls |-> 0, head |-> b, tz |-> tz, today |-> d,
                             run |-> 1]) : b \in ResumeBranches(tz)}

NextResume == RunMain \/ GenerateDay \/ GenerateReturn \/ RunExecute \/ NextRun

SpecResume == InitResume /\ [][NextResume]_vars

\* C21: every label of the pool starts with "[AutoGen]" and execute_commits
\* creates the commits in non-decreasing order of time, so after a completed
\* run with events the commit at HEAD is a generated one and carries the
\* latest generated date; a following run without --start then starts on the
\* day after that date, generates no event dated on or before it, and
\* generates nothing when that start is after its end date.
C21_ResumeWithoutOverlap ==
    /\ \A i \in DOMAIN COMMIT_MESSAGES : starts_with(COMMIT_MESSAGES[i], "[AutoGen]")
    /\ \A i, j \in DOMAIN exec[1].created :
          (i < j) => (exec[1].created[i].time <= exec[1].created[j].time)
    /\ (pc = "finished" /\ ~cli.dry_run /\ generated # <<>>) =>
          LET head == exec[1].created[Len(exec[1].created)]
          IN  /\ Len(exec[1].created) = Len(generated)
              /\ SubSeq(head.message, 1, 9) = "[AutoGen]"
              /\ (head.time + exec[1].tz) \div 1440 = Max_date(generated)
    /\ (/\ exec[1].run = 2
        /\ pc \in {"loop", "done", "finished", "exec_err"}
        /\ prev[1].completed /\ prev[1].latest # None) =>
          /\ start = prev[1].latest[1] + 1
          /\ \A k \in DOMAIN commits : commits[k].date > prev[1].latest[1]
          /\ \A k \in DOMAIN generated : generated[k].date > prev[1].latest[1]
          /\ (start > end) => (commits = <<>> /\ generated = <<>> /\ exec[1].created = <<>>)
    /\ (exec[1].run = 2 /\ prev[1].completed /\ prev[1].latest # None) => (pc # "error")

\* C21 witness: a first run has committed events dated 2024-01-05; the next
\* run, a day later and without --start, has generated and committed events,
\* all dated 2024-01-06.
C21_Witness ==
    /\ exec[1].run = 2
    /\ pc = "finished"
    /\ prev[1].completed /\ prev[1].latest = Some(738890)
    /\ cli.start = None
    /\ start = 738891 /\ end = 738891
    /\ Len(generated) = 2
    /\ Len(exec[1].created) = 2

\* C21 witness of the empty case: the next run on the same day starts after
\* its end date and has generated nothing.
C21_WitnessNothing ==
    /\ exec[1].run = 2
    /\ pc = "finished"
    /\ prev[1].completed /\ prev[1].latest = Some(738890)
    /\ start = 738891 /\ end = 738890
    /\ generated = <<>>

====
